---- MODULE Spec2Model ----
(***************************************************************************)
(* Model of the Yark archive client (yark-pages/src/lib/archive.ts) and of  *)
(* the start-page loader (ui/src/routes/start/+layout.server.ts).           *)
(*                                                                          *)
(* JavaScript strings are TLA+ strings (Len, SubSeq and \o act on them),    *)
(* arrays are sequences and plain objects are functions from key strings.   *)
(***************************************************************************)
EXTENDS Integers, Sequences, FiniteSets, TLC

VARIABLES
    openedArchive,  \* yarkStore.openedArchive: Undefined or an Archive
    recents,        \* yarkStore.recents: the array of recently opened archives
    calls,          \* history: the archives passed to setCurrentArchive, in call order
    pendingGoto,    \* the route handed to goto() and not yet navigated to, or None
    location,       \* the route the application currently shows
    pageRequest,    \* the start-page request being loaded: its parent data and cookies
    cookiesRead,    \* the names the last page load asked cookies.get() for
    call            \* the last operation run: its name, arguments, request and outcome

vars == <<openedArchive, recents, calls, pendingGoto, location, pageRequest, cookiesRead, call>>

store == <<openedArchive, recents>>

(***************************************************************************)
(* Values                                                                  *)
(***************************************************************************)

\* JavaScript's undefined and null. They are records, as archives are, so that a
\* slot holding either an object or undefined can be compared with both.
Undefined == [undefined |-> TRUE]
Null == [null |-> TRUE]

\* "No error" / "no route" where the value is otherwise a string.
None == "none"

\* The outcome of a function: a returned value or a thrown exception (for an
\* async function, the promise's resolution or rejection).
Return(v) == [threw |-> None, val |-> v]
Throw(name) == [threw |-> name, val |-> Undefined]

\* The message of src/yark-pages/src/lib/archive.ts:136.
ArchiveNotOpen == "Archive was expected to be open but it wasn't"
TypeError == "TypeError"
SyntaxError == "SyntaxError"
NetworkError == "NetworkError"

(***************************************************************************)
(* Strings                                                                 *)
(***************************************************************************)

CharAt(s, i) == SubSeq(s, i, i)

DropFirst(s, n) == SubSeq(s, n + 1, Len(s))

\* The first position >= from whose character is in chars, or Len(s) + 1.
RECURSIVE FindAny(_, _, _)
FindAny(s, chars, from) ==
    IF from > Len(s) THEN Len(s) + 1
    ELSE IF CharAt(s, from) \in chars THEN from
    ELSE FindAny(s, chars, from + 1)

\* The first position >= from whose character is not in chars, or Len(s) + 1.
RECURSIVE SkipAll(_, _, _)
SkipAll(s, chars, from) ==
    IF from > Len(s) THEN Len(s) + 1
    ELSE IF CharAt(s, from) \in chars THEN SkipAll(s, chars, from + 1)
    ELSE from

(***************************************************************************)
(* URL: the WHATWG URL class as archive.ts uses it, for http(s) URLs with   *)
(* no userinfo, port, fragment, dot segment or character needing escape.    *)
(***************************************************************************)

\* new URL(s): the scheme up to the first ":", any run of slashes, the host up to
\* the next "/" or "?", the path up to "?" ("/" when empty; empty segments are
\* kept, so "//archive" stays "//archive"), and the query.
URLParse(s) ==
    LET colon == FindAny(s, {":"}, 1)
        hostStart == SkipAll(s, {"/", "\\"}, colon + 1)
        hostEnd == FindAny(s, {"/", "\\", "?"}, hostStart)
        queryStart == FindAny(s, {"?"}, hostEnd)
    IN  IF colon > Len(s) \/ colon = 1 \/ hostStart = hostEnd
        THEN Throw(TypeError)
        ELSE Return([protocol |-> SubSeq(s, 1, colon),
                     host |-> SubSeq(s, hostStart, hostEnd - 1),
                     pathname |-> IF hostEnd = queryStart THEN "/"
                                  ELSE SubSeq(s, hostEnd, queryStart - 1),
                     search |-> SubSeq(s, queryStart, Len(s))])

\* url.href / String(url): what fetch(url) requests.
URLHref(u) == u.protocol \o "//" \o u.host \o u.pathname \o u.search

\* url.pathname = p
URLSetPathname(u, p) ==
    [u EXCEPT !.pathname = IF Len(p) > 0 /\ CharAt(p, 1) = "/" THEN p ELSE "/" \o p]

\* url.searchParams.set(key, value), for a query that does not hold key yet.
URLSearchParamsSet(u, key, value) ==
    [u EXCEPT !.search = IF u.search = "" THEN "?" \o key \o "=" \o value
                         ELSE u.search \o "&" \o key \o "=" \o value]

(***************************************************************************)
(* JSON: strings, arrays and objects, written without white space as        *)
(* JSON.stringify writes them.                                              *)
(***************************************************************************)

Quote == "\""
Backslash == "\\"

\* The characters of s with each quote and backslash escaped.
RECURSIVE JSONEscape(_)
JSONEscape(s) ==
    IF s = "" THEN ""
    ELSE LET c == CharAt(s, 1)
         IN  (IF c \in {Quote, Backslash} THEN Backslash \o c ELSE c)
                 \o JSONEscape(DropFirst(s, 1))

JSONStringifyString(s) == Quote \o JSONEscape(s) \o Quote

\* JSON.stringify of an object whose values are strings; keys is the object's
\* key order (insertion order).
RECURSIVE JSONMembers(_, _)
JSONMembers(obj, keys) ==
    IF keys = <<>> THEN ""
    ELSE JSONStringifyString(Head(keys)) \o ":" \o JSONStringifyString(obj[Head(keys)])
            \o (IF Len(keys) > 1 THEN "," ELSE "")
            \o JSONMembers(obj, Tail(keys))

JSONStringifyObject(obj, keys) == "{" \o JSONMembers(obj, keys) \o "}"

\* JSON.stringify of an array of such objects.
RECURSIVE JSONElements(_, _)
JSONElements(arr, keys) ==
    IF arr = <<>> THEN ""
    ELSE JSONStringifyObject(Head(arr), keys)
            \o (IF Len(arr) > 1 THEN "," ELSE "")
            \o JSONElements(Tail(arr), keys)

JSONStringifyArray(arr, keys) == "[" \o JSONElements(arr, keys) \o "]"

\* The parser's result at a position: the value and the position after it.
Parsed(v, next) == [ok |-> TRUE, val |-> v, next |-> next]
ParseFail == [ok |-> FALSE, val |-> Undefined, next |-> 0]

\* The rest of a string literal from position i, acc being the characters read.
RECURSIVE ParseChars(_, _, _)
ParseChars(s, i, acc) ==
    IF i > Len(s) THEN ParseFail
    ELSE LET c == CharAt(s, i)
         IN  IF c = Quote THEN Parsed(acc, i + 1)
             ELSE IF c = Backslash
                  THEN IF i + 1 <= Len(s) /\ CharAt(s, i + 1) \in {Quote, Backslash, "/"}
                       THEN ParseChars(s, i + 2, acc \o CharAt(s, i + 1))
                       ELSE ParseFail
                  ELSE ParseChars(s, i + 1, acc \o c)

RECURSIVE ParseValue(_, _)
RECURSIVE ParseElements(_, _, _)
RECURSIVE ParseMembers(_, _, _)

\* The elements of an array from position i (after "[" or ","), acc being the
\* elements read.
ParseElements(s, i, acc) ==
    LET e == ParseValue(s, i)
    IN  IF ~e.ok \/ e.next > Len(s) THEN ParseFail
        ELSE IF CharAt(s, e.next) = "," THEN ParseElements(s, e.next + 1, Append(acc, e.val))
        ELSE IF CharAt(s, e.next) = "]" THEN Parsed(Append(acc, e.val), e.next + 1)
        ELSE ParseFail

\* The members of an object from position i (after "{" or ","), acc being the
\* members read; a repeated key keeps its last value.
ParseMembers(s, i, acc) ==
    IF i > Len(s) \/ CharAt(s, i) # Quote THEN ParseFail
    ELSE LET k == ParseChars(s, i + 1, "")
         IN  IF ~k.ok \/ k.next > Len(s) \/ CharAt(s, k.next) # ":" THEN ParseFail
             ELSE LET v == ParseValue(s, k.next + 1)
                      obj == (k.val :> v.val) @@ acc
                  IN  IF ~v.ok \/ v.next > Len(s) THEN ParseFail
                      ELSE IF CharAt(s, v.next) = "," THEN ParseMembers(s, v.next + 1, obj)
                      ELSE IF CharAt(s, v.next) = "}" THEN Parsed(obj, v.next + 1)
                      ELSE ParseFail

ParseValue(s, i) ==
    IF i > Len(s) THEN ParseFail
    ELSE LET c == CharAt(s, i)
         IN  IF c = Quote THEN ParseChars(s, i + 1, "")
             ELSE IF c = "["
                  THEN IF i + 1 <= Len(s) /\ CharAt(s, i + 1) = "]"
                       THEN Parsed(<<>>, i + 2)
                       ELSE ParseElements(s, i + 1, <<>>)
             ELSE IF c = "{"
                  THEN IF i + 1 <= Len(s) /\ CharAt(s, i + 1) = "}"
                       THEN Parsed(<<>>, i + 2)
                       ELSE ParseMembers(s, i + 1, <<>>)
             ELSE ParseFail

\* JSON.parse(s): the value, or a SyntaxError when s is not one JSON text.
JSONParse(s) ==
    LET r == ParseValue(s, 1)
    IN  IF r.ok /\ r.next = Len(s) + 1 THEN Return(r.val) ELSE Throw(SyntaxError)

(***************************************************************************)
(* Inputs                                                                  *)
(***************************************************************************)

\* Archive.server: a base URL, written with or without its trailing slash.
Servers == {"https://h", "https://h/"}

\* Archive.slug
Slugs == {"abc", "xyz"}

\* interface Archive
Archives == [server : Servers, slug : Slugs]

\* enum ArchiveVideoKind: TypeScript numbers the enumerators from 0.
Videos == 0
Livestreams == 1
Shorts == 2
ArchiveVideoKind == {Videos, Livestreams, Shorts}

\* Video, thumbnail and note identifiers.
VideoIds == {"v1", "v2"}
ThumbnailIds == {"t1"}
Notes == {[id |-> "n1", timestamp |-> 5, title |-> "note", body |-> ""]}

\* CreateArchiveRemotePayload.path / .target and the admin secret of
\* getAdminSecret().
Paths == {"/d"}
Targets == {"yt"}
AdminSecrets == {"secret"}

\* interface VideoBrief, as JSON carries it (the date is a string).
VideoBriefKeys == <<"id", "title", "uploaded", "thumbnail_id">>
Brief1 == [id |-> "v1", title |-> "A", uploaded |-> "2021", thumbnail_id |-> "t1"]
Brief2 == [id |-> "v2", title |-> "\"B\"", uploaded |-> "2022", thumbnail_id |-> "t1"]
BriefLists == {<<>>, <<Brief1, Brief2>>, <<Brief2, Brief1>>}

\* What the server answers: no answer at all (fetch rejects) or a body.
NoResponse == [ok |-> FALSE, body |-> ""]
Response(body) == [ok |-> TRUE, body |-> body]

BriefResponses ==
    {NoResponse, Response("<html>")}
        \cup {Response(JSONStringifyArray(l, VideoBriefKeys)) : l \in BriefLists}

DetailResponses ==
    {NoResponse, Response("{\"uploaded\":\"2021\",\"notes\":[]}"), Response("Not Found")}

SlugResponses ==
    {NoResponse, Response("{}")}
        \cup {Response(JSONStringifyObject([slug |-> s], <<"slug">>)) : s \in Slugs}

NoteResponses == {NoResponse, Response("")}

\* Element (./element): the history of a value, oldest first, the current value
\* last.
Elements == {<<"a">>, <<"a", "a">>, <<"a", "b">>}

\* interface VideoDetailed: the fields that carry a history.
VideosDetailed ==
    [title : Elements, description : Elements, views : Elements,
     likes : Elements, thumbnail : Elements, deleted : Elements]

\* The videos whose six histories are all alike.
SampleVideos ==
    {[title |-> e, description |-> e, views |-> e,
      likes |-> e, thumbnail |-> e, deleted |-> e] : e \in Elements}

\* An HTTP request handed to fetch(), and no request.
Request(method, url, headers, body) ==
    [method |-> method, url |-> url, headers |-> headers, body |-> body]
NoRequest == [none |-> TRUE]

(***************************************************************************)
(* archive.ts: functions                                                   *)
(***************************************************************************)

RECENTS_MAX == 30

\* What an operation did: the request it issued and how it ended.
Outcome(request, result) ==
    [request |-> request, threw |-> result.threw, ret |-> result.val]

\* Faulty variant: the store's slot returned without the check.
getOpenedArchiveAlways_Unchecked == Return(openedArchive)

getOpenedArchiveAlways ==
    IF openedArchive \in {Undefined, Null}
    THEN Throw(ArchiveNotOpen)
    ELSE Return(openedArchive)

getArchiveApiLink(archive) == archive.server \o "/archive/" \o archive.slug

\* Faulty variant: a link built from the missing archive's undefined fields.
getOpenedArchiveApiLink_Optional ==
    IF openedArchive = Undefined THEN Return("undefined/archive/undefined")
    ELSE Return(getArchiveApiLink(openedArchive))

getOpenedArchiveApiLink ==
    LET archive == getOpenedArchiveAlways
    IN  IF archive.threw # None THEN archive
        ELSE Return(getArchiveApiLink(archive.val))

getVideoThumbnailApiLink(thumbnail_id) ==
    LET link == getOpenedArchiveApiLink
    IN  IF link.threw # None THEN link
        ELSE Return(link.val \o "/thumbnail/" \o thumbnail_id)

getVideoFileApiLink(videoId) ==
    LET link == getOpenedArchiveApiLink
    IN  IF link.threw # None THEN link
        ELSE Return(link.val \o "/video/" \o videoId \o "/file")

\* Faulty variant: a case copied without changing its string.
archiveVideoKindToString_Copied(kind) ==
    CASE kind = Videos -> "videos"
      [] kind = Livestreams -> "videos"
      [] kind = Shorts -> "shorts"

archiveVideoKindToString(kind) ==
    CASE kind = Videos -> "videos"
      [] kind = Livestreams -> "livestreams"
      [] kind = Shorts -> "shorts"

\* Faulty variants of the update callback, used to test the properties: one
\* that opens an archive only when none is open, one that shifts only when the
\* array is over capacity, one that closes the archive when it is opened
\* again, and one that forgets the push.
yarkStoreUpdate_KeepsOpened(value, archive) ==
    [openedArchive |-> IF value.openedArchive = Undefined
                       THEN archive ELSE value.openedArchive,
     recents |-> Append(IF Len(value.recents) >= RECENTS_MAX
                        THEN Tail(value.recents) ELSE value.recents,
                        archive)]

yarkStoreUpdate_OffByOne(value, archive) ==
    [openedArchive |-> archive,
     recents |-> Append(IF Len(value.recents) > RECENTS_MAX
                        THEN Tail(value.recents) ELSE value.recents,
                        archive)]

yarkStoreUpdate_Toggle(value, archive) ==
    [openedArchive |-> IF value.openedArchive = archive THEN Undefined ELSE archive,
     recents |-> Append(IF Len(value.recents) >= RECENTS_MAX
                        THEN Tail(value.recents) ELSE value.recents,
                        archive)]

yarkStoreUpdate_NoPush(value, archive) ==
    [openedArchive |-> archive,
     recents |-> IF Len(value.recents) >= RECENTS_MAX
                 THEN Tail(value.recents) ELSE value.recents]

\* The callback setCurrentArchive hands to yarkStore.update: the store's value
\* with the archive opened, the oldest recent shifted out when the array is
\* full, and the archive pushed.
yarkStoreUpdate(value, archive) ==
    [openedArchive |-> archive,
     recents |-> Append(IF Len(value.recents) >= RECENTS_MAX
                        THEN Tail(value.recents) ELSE value.recents,
                        archive)]

\* fetch(url, ...).then(resp => resp.json())
FetchJson(request, resp) ==
    IF ~resp.ok THEN Outcome(request, Throw(NetworkError))
    ELSE Outcome(request, JSONParse(resp.body))

fetchVideosBrief(kind, resp) ==
    LET link == getOpenedArchiveApiLink
        url == URLParse(link.val)
        target == URLSearchParamsSet(url.val, "kind", archiveVideoKindToString(kind))
    IN  IF link.threw # None THEN Outcome(NoRequest, link)
        ELSE IF url.threw # None THEN Outcome(NoRequest, url)
        ELSE FetchJson(Request("GET", URLHref(target), {}, ""), resp)

fetchVideoDetails(id, resp) ==
    LET link == getOpenedArchiveApiLink
        url == URLParse(link.val)
        target == URLSetPathname(url.val, url.val.pathname \o "/video/" \o id)
        request == Request("GET", URLHref(target), {}, "")
        json == JSONParse(resp.body)
    IN  IF link.threw # None THEN Outcome(NoRequest, link)
        ELSE IF url.threw # None THEN Outcome(NoRequest, url)
        ELSE IF ~resp.ok THEN Outcome(request, Throw(NetworkError))
        ELSE IF json.threw # None THEN Outcome(request, json)
        ELSE Outcome(request, Return(<<json.val, resp.body>>))

deleteNote(video_id, note, resp) ==
    LET link == getOpenedArchiveApiLink
        url == URLParse(link.val)
        target == URLSetPathname(url.val,
                      url.val.pathname \o "/video/" \o video_id \o "/note/" \o note.id)
        request == Request("DELETE", URLHref(target), {}, "")
    IN  IF link.threw # None THEN Outcome(NoRequest, link)
        ELSE IF url.threw # None THEN Outcome(NoRequest, url)
        ELSE IF ~resp.ok THEN Outcome(request, Throw(NetworkError))
        ELSE Outcome(request, Return(Undefined))

\* The shared body of createNewRemoteArchive and importNewRemoteArchive: POST the
\* payload to {server}/archive?intent=..., answer {server, slug: resp_json.slug}.
PostArchive(server, intent, payload, keys, secret, resp) ==
    LET url == URLParse(server)
        target == URLSearchParamsSet(URLSetPathname(url.val, "/archive"), "intent", intent)
        request == Request("POST", URLHref(target),
                           {<<"Content-Type", "application/json">>,
                            <<"Authentication", "Bearer " \o secret>>},
                           JSONStringifyObject(payload, keys))
        got == FetchJson(request, resp)
    IN  IF url.threw # None THEN Outcome(NoRequest, url)
        ELSE IF got.threw # None THEN got
        ELSE Outcome(request,
                     Return(IF "slug" \in DOMAIN got.ret
                            THEN [server |-> server, slug |-> got.ret.slug]
                            ELSE [server |-> server]))

createNewRemoteArchive(p, secret, resp) ==
    PostArchive(p.server, "create",
                [slug |-> p.slug, path |-> p.path, target |-> p.target],
                <<"slug", "path", "target">>, secret, resp)

importNewRemoteArchive(p, secret, resp) ==
    PostArchive(p.server, "existing",
                [slug |-> p.slug, path |-> p.path],
                <<"slug", "path">>, secret, resp)

\* elementWasUpdated (./element): the current value differs from the one
\* recorded before it.
elementWasUpdated(element) ==
    Len(element) > 1 /\ element[Len(element)] # element[Len(element) - 1]

\* Faulty variant: the views history checked in place of the thumbnail's.
videoWasUpdated_Views(video) ==
    elementWasUpdated(video.title)
        \/ elementWasUpdated(video.description)
        \/ elementWasUpdated(video.views)

videoWasUpdated(video) ==
    elementWasUpdated(video.title)
        \/ elementWasUpdated(video.description)
        \/ elementWasUpdated(video.thumbnail)

(***************************************************************************)
(* archive.ts: the operations as steps of the application                  *)
(***************************************************************************)

\* The record of an operation that was run. A returned value is filed under the
\* operation's name, each operation having its own return type; what a throw
\* carries is kept as it is.
Ran(op, args, outcome) ==
    [op |-> op, args |-> args, request |-> outcome.request,
     threw |-> outcome.threw,
     ret |-> IF outcome.threw = None THEN op :> outcome.ret ELSE outcome.ret]

NoArgs == [none |-> TRUE]

NoCall == Ran("none", NoArgs, Outcome(NoRequest, Return(Undefined)))

\* The value the last operation returned.
Returned == call.ret[call.op]

NoPageRequest == [none |-> TRUE]

\* yarkStore as created: no archive open, no recents.
Init ==
    /\ openedArchive = Undefined
    /\ recents = <<>>
    /\ calls = <<>>
    /\ pendingGoto = None
    /\ location = "/"
    /\ pageRequest = NoPageRequest
    /\ cookiesRead = {}
    /\ call = NoCall

\* setCurrentArchive(archive): the store update, then goto(`/archive/videos`).
SetCurrentArchive(archive) ==
    /\ LET value == yarkStoreUpdate([openedArchive |-> openedArchive,
                                     recents |-> recents], archive)
       IN  /\ openedArchive' = value.openedArchive
           /\ recents' = value.recents
    /\ calls' = Append(calls, archive)
    /\ pendingGoto' = "/archive/videos"
    /\ call' = Ran("setCurrentArchive", [archive |-> archive],
                   Outcome(NoRequest, Return(Undefined)))
    /\ UNCHANGED <<location, pageRequest, cookiesRead>>

\* The navigation goto() started reaches its route.
Navigate ==
    /\ pendingGoto # None
    /\ location' = pendingGoto
    /\ pendingGoto' = None
    /\ call' = Ran("navigate", NoArgs, Outcome(NoRequest, Return(Undefined)))
    /\ UNCHANGED <<openedArchive, recents, calls, pageRequest, cookiesRead>>

\* An operation that only reads the store.
Reads(op, args, outcome) ==
    /\ call' = Ran(op, args, outcome)
    /\ UNCHANGED <<openedArchive, recents, calls, pendingGoto, location,
                   pageRequest, cookiesRead>>

GetOpenedArchiveAlways ==
    Reads("getOpenedArchiveAlways", NoArgs, Outcome(NoRequest, getOpenedArchiveAlways))

GetVideoThumbnailApiLink ==
    \E id \in ThumbnailIds :
        Reads("getVideoThumbnailApiLink", [thumbnail_id |-> id],
              Outcome(NoRequest, getVideoThumbnailApiLink(id)))

GetVideoFileApiLink ==
    \E id \in VideoIds :
        Reads("getVideoFileApiLink", [videoId |-> id],
              Outcome(NoRequest, getVideoFileApiLink(id)))

FetchVideosBrief ==
    \E kind \in ArchiveVideoKind, resp \in BriefResponses :
        Reads("fetchVideosBrief", [kind |-> kind, resp |-> resp],
              fetchVideosBrief(kind, resp))

FetchVideoDetails ==
    \E id \in VideoIds, resp \in DetailResponses :
        Reads("fetchVideoDetails", [id |-> id, resp |-> resp],
              fetchVideoDetails(id, resp))

DeleteNote ==
    \E id \in VideoIds, note \in Notes, resp \in NoteResponses :
        Reads("deleteNote", [video_id |-> id, note |-> note, resp |-> resp],
              deleteNote(id, note, resp))

CreateNewRemoteArchive ==
    \E p \in [server : Servers, slug : Slugs, path : Paths, target : Targets],
       secret \in AdminSecrets, resp \in SlugResponses :
        Reads("createNewRemoteArchive", [payload |-> p, resp |-> resp],
              createNewRemoteArchive(p, secret, resp))

ImportNewRemoteArchive ==
    \E p \in [server : Servers, slug : Slugs, path : Paths],
       secret \in AdminSecrets, resp \in SlugResponses :
        Reads("importNewRemoteArchive", [payload |-> p, resp |-> resp],
              importNewRemoteArchive(p, secret, resp))

ArchiveVideoKindToString ==
    \E kind \in ArchiveVideoKind :
        Reads("archiveVideoKindToString", [kind |-> kind],
              Outcome(NoRequest, Return(archiveVideoKindToString(kind))))

VideoWasUpdated(videos) ==
    \E video \in videos :
        Reads("videoWasUpdated", [video |-> video],
              Outcome(NoRequest, Return(videoWasUpdated(video))))

\* The number of setCurrentArchive calls a behaviour of Spec makes.
MaxCalls == 2

OpenArchive ==
    \E archive \in Archives : Len(calls) < MaxCalls /\ SetCurrentArchive(archive)

Next ==
    \/ OpenArchive
    \/ Navigate
    \/ GetOpenedArchiveAlways
    \/ GetVideoThumbnailApiLink
    \/ GetVideoFileApiLink
    \/ FetchVideosBrief
    \/ FetchVideoDetails
    \/ DeleteNote
    \/ CreateNewRemoteArchive
    \/ ImportNewRemoteArchive
    \/ ArchiveVideoKindToString
    \/ VideoWasUpdated(SampleVideos)

Spec == Init /\ [][Next]_vars

(***************************************************************************)
(* Long runs of setCurrentArchive, past the capacity of the recents array  *)
(***************************************************************************)

\* The number of setCurrentArchive calls a behaviour of SpecRecents makes, and
\* how often two consecutive calls of it pass different archives.
MaxRecentCalls == 31
MaxSwitches == 1

Switches(list) == Cardinality({i \in 1..(Len(list) - 1) : list[i] # list[i + 1]})

OpenRecent ==
    \E archive \in Archives :
        /\ Len(calls) < MaxRecentCalls
        /\ Switches(Append(calls, archive)) <= MaxSwitches
        /\ SetCurrentArchive(archive)

NextRecents ==
    \/ OpenRecent
    \/ GetOpenedArchiveAlways

SpecRecents == Init /\ [][NextRecents]_vars

(***************************************************************************)
(* videoWasUpdated over every combination of histories                     *)
(***************************************************************************)

NextVideo == VideoWasUpdated(VideosDetailed)

SpecVideo == Init /\ [][NextVideo]_vars

(***************************************************************************)
(* routes/start/+layout.server.ts                                          *)
(***************************************************************************)

\* (await parent()).archiveState: nothing, or the state of an open archive.
ArchiveStates == {Null, Undefined, [archive |-> "abc"]}

\* interface RecentArchive, with slugs that need escaping in JSON.
RecentArchiveKeys == <<"server", "slug">>
RecentArchives == [server : Servers, slug : {"abc", "a\"b", "c\\d"}]

\* The longest recents list a cookie of the model holds.
MaxCookieList == 2

RecentLists == UNION {[1..n -> RecentArchives] : n \in 0..MaxCookieList}

\* The request's cookies, a function from names to values: none, a
\* recentArchives cookie holding the JSON of a list, or one that is not JSON.
NoCookies == <<>>
RecentsCookie(raw) == "recentArchives" :> raw
CookieJars ==
    {NoCookies, RecentsCookie("oops")}
        \cup {RecentsCookie(JSONStringifyArray(l, RecentArchiveKeys)) : l \in RecentLists}

Redirect == "redirect"

\* Faulty variant: archiveState compared with !== null, and the cookie read
\* before the comparison.
load_StrictNull(archiveState, cookies) ==
    LET present == "recentArchives" \in DOMAIN cookies
        parsed == JSONParse(cookies["recentArchives"])
    IN  IF archiveState # Null
        THEN [threw |-> Redirect, val |-> [status |-> 307, location |-> "/archive"],
              read |-> {"recentArchives"}]
        ELSE IF ~present
        THEN [threw |-> None, val |-> [recentArchives |-> <<>>],
              read |-> {"recentArchives"}]
        ELSE IF parsed.threw # None
        THEN [threw |-> parsed.threw, val |-> Undefined, read |-> {"recentArchives"}]
        ELSE [threw |-> None, val |-> [recentArchives |-> parsed.val],
              read |-> {"recentArchives"}]

\* load({parent, cookies}): the outcome, and the cookie names it read.
load(archiveState, cookies) ==
    LET present == "recentArchives" \in DOMAIN cookies
        parsed == JSONParse(cookies["recentArchives"])
    IN  IF archiveState \notin {Null, Undefined}
        THEN [threw |-> Redirect, val |-> [status |-> 307, location |-> "/archive"],
              read |-> {}]
        ELSE IF ~present
        THEN [threw |-> None, val |-> [recentArchives |-> <<>>],
              read |-> {"recentArchives"}]
        ELSE IF parsed.threw # None
        THEN [threw |-> parsed.threw, val |-> Undefined, read |-> {"recentArchives"}]
        ELSE [threw |-> None, val |-> [recentArchives |-> parsed.val],
              read |-> {"recentArchives"}]

\* A request for the start page arrives, no archive.ts operation having run.
InitStart ==
    /\ openedArchive = Undefined
    /\ recents = <<>>
    /\ calls = <<>>
    /\ pendingGoto = None
    /\ location = "/start"
    /\ pageRequest \in [archiveState : ArchiveStates, cookies : CookieJars]
    /\ cookiesRead = {}
    /\ call = NoCall

Load ==
    /\ pageRequest # NoPageRequest
    /\ LET out == load(pageRequest.archiveState, pageRequest.cookies)
       IN  /\ call' = Ran("load", NoArgs, Outcome(NoRequest, out))
           /\ cookiesRead' = out.read
    /\ UNCHANGED <<openedArchive, recents, calls, pendingGoto, location, pageRequest>>

NextStart == Load

SpecStart == InitStart /\ [][NextStart]_vars

(***************************************************************************)
(* Properties                                                              *)
(***************************************************************************)

Last(list) == list[Len(list)]

Min(a, b) == IF a < b THEN a ELSE b

\* C1: after any sequence of setCurrentArchive calls the open archive is the
\* archive of the last call: each call replaces the one open slot.
C1_OpenIsLastPassed ==
    calls # <<>> => openedArchive \in Archives /\ openedArchive = Last(calls)

\* More than capacity many calls were made, the last with another archive than
\* the first, and the last one is open.
C1_Witness ==
    /\ Len(calls) > RECENTS_MAX
    /\ calls[1] # Last(calls)
    /\ openedArchive = Last(calls)

\* C2: starting from empty recents, after N calls the recents list is the
\* last min(N, 30) archives passed, in call order, repeats kept; so it never
\* holds more than 30 entries, and a call on a full list drops the oldest
\* entry and appends the new one.
C2_RecentsAreLastCalls ==
    LET n == Min(Len(calls), RECENTS_MAX)
    IN  /\ Len(recents) <= RECENTS_MAX
        /\ recents = SubSeq(calls, Len(calls) - n + 1, Len(calls))

\* The 31st call was made on a full list: the first archive passed was dropped,
\* the list holds 30 entries, with a repeated archive and two different ones.
C2_Witness ==
    /\ Len(calls) = RECENTS_MAX + 1
    /\ Len(recents) = RECENTS_MAX
    /\ recents[1] = calls[2]
    /\ recents[1] = recents[2]
    /\ recents[1] # Last(recents)

\* C3: getOpenedArchiveAlways throws the "expected to be open" error exactly
\* when setCurrentArchive has never been called; otherwise it returns the
\* store's openedArchive; either way it leaves the store as it was.
C3_GetOpenedArchiveAlways ==
    [][call'.op = "getOpenedArchiveAlways" =>
          /\ call'.threw \in {None, ArchiveNotOpen}
          /\ call'.threw = ArchiveNotOpen <=> calls = <<>>
          /\ call'.threw = None => Returned' = openedArchive
          /\ UNCHANGED <<openedArchive, recents>>]_vars

\* getOpenedArchiveAlways returned the archive of the second call.
C3_Witness ==
    /\ call.op = "getOpenedArchiveAlways"
    /\ call.threw = None
    /\ Len(calls) = 2
    /\ Returned = calls[2]

ArchiveScopedOps ==
    {"fetchVideosBrief", "fetchVideoDetails", "deleteNote",
     "getVideoThumbnailApiLink", "getVideoFileApiLink"}

\* C4: an archive-scoped operation run while no archive is open throws the
\* "expected to be open" error (so it returns no link and no value), issues no
\* request and leaves the store as it was.
C4_ScopedOpsFailWhenClosed ==
    [][call'.op \in ArchiveScopedOps /\ openedArchive = Undefined =>
          /\ call'.threw = ArchiveNotOpen
          /\ call'.request = NoRequest
          /\ UNCHANGED <<openedArchive, recents>>]_vars

\* deleteNote was run with no archive open.
C4_Witness ==
    /\ call.op = "deleteNote"
    /\ openedArchive = Undefined
    /\ call.threw = ArchiveNotOpen

\* C5: the store is either closed or holds one archive; only setCurrentArchive
\* changes openedArchive or recents, and no step closes an open archive.
C5_OnlySetCurrentArchiveWrites ==
    [][/\ openedArchive' \in {Undefined} \cup Archives
       /\ call'.op # "setCurrentArchive" => UNCHANGED <<openedArchive, recents>>
       /\ openedArchive # Undefined => openedArchive' # Undefined]_vars

\* createNewRemoteArchive answered an archive other than the open one, and the
\* open one stayed open.
C5_Witness ==
    /\ call.op = "createNewRemoteArchive"
    /\ call.threw = None
    /\ openedArchive \in Archives
    /\ Returned # openedArchive
    /\ Len(recents) = 1

\* C6: with the archive (https://h/, abc) open, fetchVideosBrief(Shorts) sends
\* one GET to https://h/archive/abc?kind=shorts and returns the server's array
\* as it is; for any open archive and kind the target is
\* {server}/archive/{slug}?kind={kind string}.
C6_FetchVideosBriefRequest ==
    call.op = "fetchVideosBrief" /\ openedArchive # Undefined =>
        /\ call.request.method = "GET"
        /\ call.request.url =
               openedArchive.server \o "/archive/" \o openedArchive.slug
                   \o "?kind=" \o archiveVideoKindToString(call.args.kind)
        /\ (openedArchive = [server |-> "https://h/", slug |-> "abc"]
                /\ call.args.kind = Shorts)
               => call.request.url = "https://h/archive/abc?kind=shorts"
        /\ \A l \in BriefLists :
               call.args.resp = Response(JSONStringifyArray(l, VideoBriefKeys))
                   => call.threw = None /\ Returned = l

MajorFields == {"title", "description", "thumbnail"}

\* C7: videoWasUpdated is true exactly when the title, description or
\* thumbnail history reports an update; updates of views, likes or deleted
\* alone leave it false.
C7_VideoWasUpdated ==
    call.op = "videoWasUpdated" =>
        /\ call.threw = None
        /\ Returned = TRUE <=> \E f \in MajorFields : elementWasUpdated(call.args.video[f])
        /\ (\A f \in MajorFields : ~elementWasUpdated(call.args.video[f]))
               => Returned = FALSE

\* videoWasUpdated answered false for a video whose views, likes and deleted
\* histories all report an update.
C7_Witness ==
    /\ call.op = "videoWasUpdated"
    /\ Returned = FALSE
    /\ elementWasUpdated(call.args.video.views)
    /\ elementWasUpdated(call.args.video.likes)
    /\ elementWasUpdated(call.args.video.deleted)

\* C8: load redirects (307, /archive) exactly when archiveState is not null,
\* and then reads no cookie; otherwise it returns the recents decoded from the
\* recentArchives cookie: the empty list when there is no cookie, and L when
\* the cookie is the JSON of the list L.
C8_LoadGuard ==
    call.op = "load" =>
        /\ call.threw = Redirect <=> pageRequest.archiveState \notin {Null, Undefined}
        /\ call.threw = Redirect =>
               /\ call.ret = [status |-> 307, location |-> "/archive"]
               /\ cookiesRead = {}
        /\ (call.threw # Redirect /\ pageRequest.cookies = NoCookies) =>
               call.threw = None /\ Returned = [recentArchives |-> <<>>]
        /\ \A l \in RecentLists :
               (/\ call.threw # Redirect
                /\ pageRequest.cookies = RecentsCookie(JSONStringifyArray(l, RecentArchiveKeys)))
                   => call.threw = None /\ Returned = [recentArchives |-> l]

\* load returned a list of two different entries, one with a slug that JSON
\* escapes, decoded from the cookie.
C8_Witness ==
    /\ call.op = "load"
    /\ call.threw = None
    /\ Len(Returned.recentArchives) = 2
    /\ Returned.recentArchives[1].slug = "a\"b"
    /\ Returned.recentArchives[2].slug = "abc"

\* C9: archiveVideoKindToString maps Videos to "videos", Livestreams to
\* "livestreams" and Shorts to "shorts": every enumerator has one string and no
\* two enumerators share one.
C9_KindToString ==
    call.op = "archiveVideoKindToString" =>
        /\ call.threw = None
        /\ call.args.kind = Videos => Returned = "videos"
        /\ call.args.kind = Livestreams => Returned = "livestreams"
        /\ call.args.kind = Shorts => Returned = "shorts"
        /\ \A k \in ArchiveVideoKind :
               archiveVideoKindToString(k) = Returned => k = call.args.kind

\* archiveVideoKindToString(Shorts) was run.
C9_Witness ==
    /\ call.op = "archiveVideoKindToString"
    /\ call.args.kind = Shorts
    /\ Returned = "shorts"

\* C10: once setCurrentArchive(a) has run, the store never shows a as open
\* without a being the last recent, nor the reverse; once goto was called, and
\* after the navigation, the open archive is the one last passed, and every
\* read of the store answers for that archive.
C10_UpdateBeforeNavigation ==
    /\ calls # <<>> =>
           /\ recents # <<>>
           /\ openedArchive = Last(calls) <=> Last(recents) = Last(calls)
           /\ Last(recents) = openedArchive
    /\ (pendingGoto # None \/ location = "/archive/videos") =>
           calls # <<>> /\ openedArchive = Last(calls)
    /\ (call.op = "getOpenedArchiveAlways" /\ calls # <<>>) =>
           call.threw = None /\ Returned = Last(calls)
    /\ (call.op = "getVideoFileApiLink" /\ calls # <<>>) =>
           /\ call.threw = None
           /\ Returned = getArchiveApiLink(Last(calls))
                             \o "/video/" \o call.args.videoId \o "/file"
    /\ (call.op \in ArchiveScopedOps /\ calls # <<>>) => call.threw # ArchiveNotOpen

\* After a second setCurrentArchive and its navigation, a link was built for
\* the second archive, which differs from the first.
C10_Witness ==
    /\ location = "/archive/videos"
    /\ pendingGoto = None
    /\ Len(calls) = 2
    /\ calls[1] # calls[2]
    /\ call.op = "getVideoFileApiLink"
    /\ call.threw = None

====
